---------------------------- MODULE Spec2Model ----------------------------
(***************************************************************************)
(* A model of the hash-based signature core of brs-qrl:                    *)
(*   - src/qrl/crypto/hmac_drbg.py : the HMAC_DRBG generator               *)
(*   - src/merkle.py               : Winternitz, Winternitz+ and Lamport   *)
(*                                   one-time signatures, the Merkle tree   *)
(*                                   and the Merkle signature scheme (MSS)  *)
(*                                                                         *)
(* Python strings and byte strings are sequences of integers.  SHA-256 and *)
(* HMAC are not computed bit by bit: SHA-256 is an injective map on the    *)
(* strings the program builds (a collision-free hash), HMAC is a mixing    *)
(* function into a small range.  Exceptions are return values named after  *)
(* the Python exception.                                                   *)
(***************************************************************************)
EXTENDS Integers, Sequences, FiniteSets, TLC

VARIABLES
    \* ---- HMAC_DRBG instance (hmac_drbg.py:72-135)
    K,                  \* self.K
    V,                  \* self.V
    reseed_counter,     \* self.reseed_counter
    security_strength,  \* self.security_strength
    drbg_call,          \* the last call on the instance: arguments, the fields
                        \* it found, and what it returned
    drbg_exhausted,     \* TRUE once a generate call has returned None
    drbg_calls,         \* number of calls made on the instance so far
    \* ---- one one-time key pair and its use (merkle.py:50-289)
    ots_pc,             \* "new", "keyed", "signed", "verified"
    ots_kp,             \* the key pair: scheme, w, priv, pub
    ots_sig,            \* what sign returned for which message
    ots_ver,            \* what verify returned for which message
    \* ---- one MSS key set (merkle.py:293-557)
    data,               \* the list random_wmss / random_ldmss returned
    merkle,             \* the Merkle object the entries share (merkle_obj)
    mss_sig,            \* the signature sign_mss returned last
    mss_call,           \* the last call: arguments and what it returned
    mss_signed,         \* per entry of data, the messages it has signed
    mss_signs,          \* number of signatures handed out so far
    \* ---- single calls of the Winternitz+ building blocks (merkle.py:36-47, 97-112)
    wp_call,            \* the last call: its arguments and what it returned
    \* ---- one ExpiringSet (expiring_set.py:10-39)
    expiration_time,    \* self.expiration_time
    es_data,            \* self._data, as the set of its <<key, value>> items
    es_time,            \* what ntp.getTime() returns now
    es_call,            \* the last call: its arguments, its time, what it returned
    es_added            \* per key, the time of its last add (-1: never added)

drbg_vars == <<K, V, reseed_counter, security_strength, drbg_call,
               drbg_exhausted, drbg_calls>>

ots_vars == <<ots_pc, ots_kp, ots_sig, ots_ver>>

mss_vars == <<data, merkle, mss_sig, mss_call, mss_signed, mss_signs>>

wp_vars == <<wp_call>>

es_vars == <<expiration_time, es_data, es_time, es_call, es_added>>

vars == <<drbg_vars, ots_vars, mss_vars, wp_vars, es_vars>>

----------------------------------------------------------------------------
(***************************************************************************)
(* Generic helpers                                                         *)
(***************************************************************************)
RECURSIVE SumSeq(_)
SumSeq(s) == IF s = <<>> THEN 0 ELSE Head(s) + SumSeq(Tail(s))

Min(a, b) == IF a < b THEN a ELSE b

\* F(v), with v evaluated first and once
With(v, F(_)) == CHOOSE y \in {F(x) : x \in {v}} : TRUE

----------------------------------------------------------------------------
(***************************************************************************)
(* Strings, random keys and SHA-256                                        *)
(*                                                                         *)
(* A string is a sequence of integers.  Hexadecimal digits are 0..15.      *)
(*   <<-2, id>>                 the 64 hex characters random_key() returned *)
(*                              on its id-th call (all distinct)            *)
(*   <<-1, n, Len(b)>> \o b     sha256 applied n times to the string b      *)
(*   <<-3, Len(x)>> \o x \o r   hex(int(x,16) ^ int(r,16))                  *)
(* A message is a string of hex digits <<fill>> \o prefix (or the empty    *)
(* string); its SHA-256 digest is the 64 hex digits prefix, fill, fill, ...*)
(* so that the model can pick messages by the digest they have.            *)
(***************************************************************************)
Ok(v) == [status |-> "ok", value |-> v]

Raise(e) == [status |-> e, value |-> <<>>]

DigestLen == 64         \* hex characters of a SHA-256 digest

\* random_key() (bitcoin / hmac_drbg.py:12-13): the id-th fresh key
random_key(id) == <<-2, id>>

\* ''.join(list) (the list is joined half by half)
RECURSIVE join(_)
join(list) ==
    IF Len(list) = 0 THEN <<>>
    ELSE IF Len(list) = 1 THEN list[1]
    ELSE join(SubSeq(list, 1, Len(list) \div 2)) \o
         join(SubSeq(list, (Len(list) \div 2) + 1, Len(list)))

IsMessage(x) == x = <<>> \/ x[1] \in 0 .. 15

IsOneDigest(x) == Len(x) >= 3 /\ x[1] = -1 /\ Len(x) = x[3] + 3

\* sha256('') = e3b0c44298fc1c149afbf4c8996fb92427ae41e4649b934ca495991b7852b855
EmptyDigest ==
    <<14,3,11,0,12,4,4,2,9,8,15,12,1,12,1,4,9,10,15,11,15,4,12,8,9,9,6,15,11,9,2,4,
      2,7,10,14,4,1,14,4,6,4,9,11,9,3,4,12,10,4,9,5,9,9,1,11,7,8,5,2,11,8,5,5>>

MessageDigest(m) ==
    IF m = <<>> THEN EmptyDigest
    ELSE [i \in 1 .. DigestLen |-> IF i < Len(m) THEN m[i + 1] ELSE m[1]]

\* sha256(x) of the bitcoin package: the hex digest of x
sha256(x) ==
    IF IsMessage(x) THEN MessageDigest(x)
    ELSE IF IsOneDigest(x) THEN <<-1, x[2] + 1, x[3]>> \o SubSeq(x, 4, Len(x))
    ELSE <<-1, 1, Len(x)>> \o x

\* hex(int(x,16) ^ int(r,16))
HexXor(x, r) == <<-3, Len(x)>> \o x \o r

\* unhexlify(h): one byte for every two hex digits
unhexlify(h) == [i \in 1 .. (Len(h) \div 2) |-> 16 * h[2 * i - 1] + h[2 * i]]

\* hex(n)[2:] for n >= 0: the hex digits of n, no leading zeros
RECURSIVE HexDigits(_)
HexDigits(n) == IF n < 16 THEN <<n>> ELSE Append(HexDigits(n \div 16), n % 16)

\* bin(n)[2:] for n >= 0
RECURSIVE BinDigits(_)
BinDigits(n) == IF n < 2 THEN <<n>> ELSE Append(BinDigits(n \div 2), n % 2)

\* while len(l_byte) < 8: l_byte = '0' + l_byte
RECURSIVE PadByte(_)
PadByte(l_byte) == IF Len(l_byte) < 8 THEN PadByte(<<0>> \o l_byte) ELSE l_byte

\* for y in range(n): s = sha256(s)
\* (the n applications are made half by half, to keep the evaluation shallow)
RECURSIVE HashTimes(_, _)
HashTimes(s, n) ==
    IF n <= 0 THEN s
    ELSE IF n = 1 THEN sha256(s)
    ELSE With(HashTimes(s, n \div 2), LAMBDA h : HashTimes(h, n - (n \div 2)))

RECURSIVE Pow2(_)
Pow2(n) == IF n = 0 THEN 1 ELSE 2 * Pow2(n - 1)

\* math.log(w, 2) for w a power of two
RECURSIVE Log2(_)
Log2(w) == IF w <= 1 THEN 0 ELSE 1 + Log2(w \div 2)

\* floor(log(n,2)/log(w,2)) for w a power of two
FloorLogW(n, w) == Log2(n) \div Log2(w)

CeilDiv(a, b) == (a + b - 1) \div b

WDefault  == 8          \* w of random_wkey

WpDefault == 16         \* w of random_wpkey, sign_wpkey, verify_wpkey

LDefault  == 256        \* numbers of random_lkey

----------------------------------------------------------------------------
(***************************************************************************)
(* Winternitz OTS+ (merkle.py:33-159)                                      *)
(***************************************************************************)
\* fn_k(x, k)
fn_k(x, k) == sha256(k \o x)

\* for y in range(from, to): x = fn_k(hex(int(x,16)^int(r[y],16)), k)
RECURSIVE ChainLoop(_, _, _, _, _)
ChainLoop(x, r, y, to, k) ==
    IF y >= to THEN Ok(x)
    ELSE IF y + 1 > Len(r) THEN Raise("IndexError")
    ELSE With(fn_k(HexXor(x, r[y + 1]), k), LAMBDA x1 : ChainLoop(x1, r, y + 1, to, k))

\* chain_fn(x, r, i, k)
chain_fn(x, r, i, k) == IF i = 0 THEN Ok(x) ELSE ChainLoop(x, r, 0, i, k)

\* chain_fn2(x, r, i, k): the loop runs to the literal 15
chain_fn2(x, r, i, k) == ChainLoop(x, r, i, 15, k)

\* l_1, l_2, l as random_wpkey computes them (lines 55-58)
WpLengths(w) ==
    With(CeilDiv(256, Log2(w)), LAMBDA l_1 :
        [l_1 |-> l_1,
         l_2 |-> FloorLogW(l_1 * (w - 1), w) + 1,
         l   |-> l_1 + FloorLogW(l_1 * (w - 1), w) + 1])

\* l_1, l_2, l as sign_wpkey and verify_wpkey take them (lines 85-93, 122-130)
WpSignLengths(w) ==
    IF w = 16 THEN [l_1 |-> 64, l_2 |-> 3, l |-> 67] ELSE WpLengths(w)

\* every chain in a list, or the exception one of them raises
MapChain(xs, steps, r, k, second) ==
    With([x \in 1 .. Len(xs) |->
             IF second THEN chain_fn2(xs[x], r, steps[x], k)
                       ELSE chain_fn(xs[x], r, steps[x], k)],
         LAMBDA cs :
            IF \E x \in 1 .. Len(xs) : cs[x].status # "ok"
            THEN Raise("IndexError")
            ELSE Ok([x \in 1 .. Len(xs) |-> cs[x].value]))

\* random_wpkey(w=16); the keys drawn are random_key(seed + 1), ...
random_wpkey(w, seed) ==
    With(WpLengths(w), LAMBDA L :
      LET sk   == [x \in 1 .. (L.l + w - 1) |-> random_key(seed + x)]
          priv == SubSeq(sk, 1, Len(sk) - (w - 1))      \* sk[:-(w-1)]
          r    == SubSeq(sk, L.l + 1, Len(sk))          \* sk[l:]
          k    == random_key(seed + L.l + w)
      IN  [priv |-> priv,
           pub  |-> <<<<r, k>>>> \o
                    MapChain(priv, [x \in 1 .. Len(priv) |-> w - 1], r, k, FALSE).value])

\* lines 97-112 / 134-149: the l digits s of a digest, or the exception
RECURSIVE MsgDigitsSum(_, _)
MsgDigitsSum(digits, w) ==
    IF digits = <<>> THEN 0 ELSE (w - 1 - Head(digits)) + MsgDigitsSum(Tail(digits), w)

\* lines 105-108 / 142-145: c = hex(checksum)[2:]; if len(c) < 3: c = '0' + c
ChecksumString(checksum) ==
    With(HexDigits(checksum), LAMBDA c : IF Len(c) < 3 THEN <<0>> \o c ELSE c)

DigestDigits(digest, w) ==
    With(WpSignLengths(w), LAMBDA L :
        IF L.l_1 > Len(digest) THEN Raise("IndexError")      \* message[x]
        ELSE With(MsgDigitsSum(SubSeq(digest, 1, L.l_1), w), LAMBDA checksum :
          IF checksum < 0 THEN Raise("ValueError")           \* int('x', 16)
          ELSE With(ChecksumString(checksum), LAMBDA c :
            IF L.l_2 > Len(c) THEN Raise("IndexError")       \* c[x]
            ELSE Ok(SubSeq(digest, 1, L.l_1) \o SubSeq(c, 1, L.l_2)))))

\* line 95 / 132: message = sha256(message), then the digits
WpDigits(message, w) == DigestDigits(sha256(message), w)

\* sign_wpkey(priv, message, pub, w=16)
sign_wpkey(priv, message, pub, w) ==
    With(WpDigits(message, w), LAMBDA s :
        IF s.status # "ok" THEN s
        ELSE IF Len(priv) < Len(s.value) THEN Raise("IndexError")   \* priv[x]
        ELSE MapChain(SubSeq(priv, 1, Len(s.value)), s.value,
                      pub[1][1], pub[1][2], FALSE))

\* verify_wpkey(signature, message, pub, w=16)
verify_wpkey(signature, message, pub, w) ==
    With(WpDigits(message, w), LAMBDA s :
        IF s.status # "ok" THEN s.status
        ELSE IF Len(signature) < Len(s.value) THEN "IndexError"     \* signature[x]
        ELSE With(MapChain(SubSeq(signature, 1, Len(s.value)), s.value,
                           pub[1][1], pub[1][2], TRUE),
                  LAMBDA pub2 :
                    IF pub2.status # "ok" THEN pub2.status
                    ELSE IF pub2.value = Tail(pub) THEN "True" ELSE "False"))

----------------------------------------------------------------------------
(***************************************************************************)
(* Winternitz OTS (merkle.py:163-219)                                      *)
(***************************************************************************)
\* random_wkey(w=8): 256/w private keys, each hashed 2**w - 1 times and once more
random_wkey(w, seed) ==
    With(IF w > 16 THEN 16 ELSE w, LAMBDA w1 :
      LET priv == [x \in 1 .. (256 \div w1) |-> random_key(seed + x)]
      IN  [priv |-> priv,
           pub  |-> [x \in 1 .. (256 \div w1) |->
                        sha256(HashTimes(priv[x], Pow2(w1) - 1))]])

\* line 198: range(256 - ord(bin_msg[y:y+1]))
\* (variant for comparison: one hash less)
SignHashCount_255(byte) == 255 - byte
SignHashCount(byte) == 256 - byte

\* sign_wkey(priv, message); ord('') raises TypeError past the digest's last byte
sign_wkey(priv, message) ==
    With(unhexlify(sha256(message)), LAMBDA bin_msg :
        IF Len(priv) > Len(bin_msg) THEN Raise("TypeError")
        ELSE Ok([y \in 1 .. Len(priv) |->
                    HashTimes(priv[y], SignHashCount(bin_msg[y]))]))

\* verify_wkey(signature, message, pub)
verify_wkey(signature, message, pub) ==
    With(unhexlify(sha256(message)), LAMBDA bin_msg :
        IF Len(signature) > Len(bin_msg) THEN "TypeError"
        ELSE With([x \in 1 .. Len(signature) |-> HashTimes(signature[x], bin_msg[x])],
                  LAMBDA verify : IF pub # verify THEN "False" ELSE "True"))

----------------------------------------------------------------------------
(***************************************************************************)
(* Lamport-Diffie OTS (merkle.py:224-289)                                  *)
(***************************************************************************)
\* random_lkey(numbers=256); the pair x is random_key(seed+2x-1), random_key(seed+2x)
random_lkey(numbers, seed) ==
    LET priv == [x \in 1 .. numbers |->
                    <<random_key(seed + 2 * x - 1), random_key(seed + 2 * x)>>]
    IN  [priv |-> priv,
         pub  |-> [x \in 1 .. numbers |-> <<sha256(priv[x][1]), sha256(priv[x][2])>>]]

\* lines 231-244 / 256-269: the halves picked for one byte, low bit first:
\* l_byte[-1:] is looked at, then l_byte = l_byte[:-1], eight times
RECURSIVE ByteChoices(_, _)
ByteChoices(l_byte, y) ==
    IF y >= 8 THEN <<>>
    ELSE <<(IF l_byte[Len(l_byte)] = 0 THEN 1 ELSE 2)>> \o
         ByteChoices(SubSeq(l_byte, 1, Len(l_byte) - 1), y + 1)

\* the half (1 or 2) of every key pair that a message selects, z = 0, 1, ...
RECURSIVE LamportChoices(_)
LamportChoices(bin_lmsg) ==
    IF bin_lmsg = <<>> THEN <<>>
    ELSE ByteChoices(PadByte(BinDigits(Head(bin_lmsg))), 0) \o
         LamportChoices(Tail(bin_lmsg))

\* sign_lkey(priv, message)
sign_lkey(priv, message) ==
    With(LamportChoices(unhexlify(sha256(message))), LAMBDA ch :
        IF Len(priv) < Len(ch) THEN Raise("IndexError")          \* priv[z]
        ELSE Ok([z \in 1 .. Len(ch) |-> priv[z][ch[z]]]))

\* line 272: if verify[p][0] == verify[p][1]
LamportMatch(verify) == \A p \in 1 .. Len(verify) : verify[p][1] = verify[p][2]

\* verify_lkey(signature, message, pub)
verify_lkey(signature, message, pub) ==
    With(LamportChoices(unhexlify(sha256(message))), LAMBDA ch :
        IF Len(signature) < Len(ch) \/ Len(pub) < Len(ch)
        THEN "IndexError"                                        \* signature[z], pub[z]
        ELSE With([z \in 1 .. Len(ch) |-> <<sha256(signature[z]), pub[z][ch[z]]>>],
                  LAMBDA verify : IF LamportMatch(verify) THEN "True" ELSE "False"))

----------------------------------------------------------------------------
(***************************************************************************)
(* Merkle tree (merkle.py:463-557)                                         *)
(***************************************************************************)
MaxLeaves == 512        \* most leaves create_tree has a branch count for

\* lines 516-533: num_branches by leaf count; 0 stands for the name being
\* unbound (no branch of the if/elif chain taken)
RECURSIVE BranchesFor(_, _, _)
BranchesFor(num_leaves, limit, branches) ==
    IF num_leaves <= limit THEN branches
    ELSE IF limit >= MaxLeaves THEN 0
    ELSE BranchesFor(num_leaves, 2 * limit, branches + 1)

NumBranches(num_leaves) == BranchesFor(num_leaves, 2, 1)

\* lines 545-549: one cycle of the inner loop, at position y of hashlayer
LayerNode(hashlayer, y) ==
    IF y + 1 = Len(hashlayer)
    THEN hashlayer[y + 1]                                   \* carried, y stays
    ELSE sha256(hashlayer[y + 1] \o hashlayer[y + 2])       \* y = y + 2

\* lines 541-549: the layer above hashlayer
RECURSIVE LayerLoop(_, _, _, _)
LayerLoop(hashlayer, cycles, y, temp_array) ==
    IF cycles = 0 THEN temp_array
    ELSE With(Append(temp_array, LayerNode(hashlayer, y)), LAMBDA t :
            LayerLoop(hashlayer, cycles - 1,
                      IF y + 1 = Len(hashlayer) THEN y ELSE y + 2, t))

LayerAbove(hashlayer) ==
    LayerLoop(hashlayer, (Len(hashlayer) % 2) + (Len(hashlayer) \div 2), 0, <<>>)

\* lines 540-552: for x in range(num_branches)
RECURSIVE BuildLayers(_, _, _)
BuildLayers(tree, hashlayer, branches) ==
    IF branches = 0 THEN tree
    ELSE With(LayerAbove(hashlayer), LAMBDA temp_array :
            BuildLayers(Append(tree, temp_array), temp_array, branches - 1))

\* create_tree(self)
create_tree(self) ==
    With(NumBranches(self.num_leaves), LAMBDA num_branches :
      IF num_branches = 0
      THEN [self EXCEPT !.status = "UnboundLocalError"]     \* line 535
      ELSE With(BuildLayers(<<self.base>>, self.base, num_branches), LAMBDA tree :
             [self EXCEPT !.num_branches = num_branches,
                          !.tree = tree,
                          !.root = tree[Len(tree)],
                          !.height = Len(tree)]))

\* line 501 / 504: the pair appended to the route
\* (variant for comparison: the pair in the other order)
RoutePair_swapped(left, right) == <<right, left>>
RoutePair(left, right) == <<left, right>>

\* lines 499-507: for nodehash in nodes_above, with leaf and auth_route in st
RECURSIVE AboveLoop(_, _, _, _)
AboveLoop(st, node, nodes_above, j) ==
    IF j > Len(nodes_above) THEN st
    ELSE With(IF sha256(st.leaf \o node) = nodes_above[j]
              THEN [st EXCEPT !.leaf = nodes_above[j],
                              !.route = Append(@, RoutePair(st.leaf, node))]
              ELSE IF sha256(node \o st.leaf) = nodes_above[j]
              THEN [st EXCEPT !.leaf = nodes_above[j],
                              !.route = Append(@, RoutePair(node, st.leaf))]
              ELSE st,
              LAMBDA st1 : AboveLoop(st1, node, nodes_above, j + 1))

\* lines 497-507: for node in nodes
RECURSIVE NodesLoop(_, _, _, _)
NodesLoop(st, nodes, nodes_above, i) ==
    IF i > Len(nodes) THEN st
    ELSE With(IF st.leaf # nodes[i] THEN AboveLoop(st, nodes[i], nodes_above, 1)
                                    ELSE st,
              LAMBDA st1 : NodesLoop(st1, nodes, nodes_above, i + 1))

\* lines 488-493: a layer of one node
\* (variant for comparison: the root is not appended to the route)
RootStep_noappend(self, st) ==
    IF self.tree[st.x + 1] = self.root
    THEN [st EXCEPT !.appended = @ + 1]
    ELSE st
RootStep(self, st) ==
    IF self.tree[st.x + 1] = self.root
    THEN [st EXCEPT !.route = Append(@, self.root), !.appended = @ + 1]
    ELSE st                     \* 'Merkle route calculation failed @ root'

\* lines 487-507: for x in range(self.height)
RECURSIVE RouteLayers(_, _)
RouteLayers(self, st) ==
    IF st.x >= self.height THEN st
    ELSE With(IF Len(self.tree[st.x + 1]) = 1
              THEN RootStep(self, st)
              ELSE NodesLoop(st, self.tree[st.x + 1], self.tree[st.x + 2], 1),
              LAMBDA st1 : RouteLayers(self, [st1 EXCEPT !.x = @ + 1]))

\* lines 485-507 for leaf y: auth_route is one list object, so every
\* self.auth_lists.append(auth_route) made for the leaf shows the finished route
RouteOfLeaf(self, y) ==
    With(RouteLayers(self, [leaf |-> self.tree[1][y + 1], route |-> <<>>,
                            appended |-> 0, x |-> 0]),
         LAMBDA st : [k \in 1 .. st.appended |-> st.route])

\* route_proof(self)
route_proof(self) ==
    [self EXCEPT !.auth_lists =
        join([y \in 1 .. self.num_leaves |-> RouteOfLeaf(self, y - 1)])]

\* Merkle(base=[]): __init__
Merkle(base) ==
    With([base |-> base, tree |-> <<>>, num_leaves |-> Len(base),
          num_branches |-> 0, root |-> <<>>, height |-> 0, auth_lists |-> <<>>,
          status |-> "ok"],
         LAMBDA self :
            IF base = <<>> THEN self        \* no tree, root, height, auth_lists
            ELSE With(create_tree(self), LAMBDA t :
                    IF t.status # "ok" THEN t ELSE route_proof(t)))

----------------------------------------------------------------------------
(***************************************************************************)
(* Merkle signature scheme (merkle.py:293-459)                             *)
(***************************************************************************)
WotsKeys == 32          \* keys one WOTS entry draws (256/8)

LdotsKeys == 512        \* keys one LDOTS entry draws (2 * 256)

\* WOTS(signatures, index)
WOTS(signatures, index) ==
    With(random_wkey(WDefault, WotsKeys * index), LAMBDA kp :
        [signatures |-> signatures, merkle_root |-> <<>>, merkle_path |-> <<>>,
         state |-> 0, type |-> "WOTS", index |-> index,
         priv |-> kp.priv, pub |-> kp.pub,
         pubhash |-> sha256(join(kp.pub))])

\* LDOTS(signatures, index)
LDOTS(signatures, index) ==
    With(random_lkey(LDefault, LdotsKeys * index), LAMBDA kp :
        [signatures |-> signatures, merkle_root |-> <<>>, merkle_path |-> <<>>,
         state |-> 0, type |-> "LDOTS", index |-> index,
         priv |-> kp.priv, pub |-> kp.pub,
         pubhash |-> sha256(join(join(kp.pub)))])     \* publist, concatpub

\* lines 371-376 / 396-401: a = Merkle(base=pubhashes) and the loop over y
AttachTree(entries, a) ==
    [y \in 1 .. Len(entries) |->
        [entries[y] EXCEPT !.merkle_root = join(a.root),
                           !.merkle_path = a.auth_lists[y]]]

\* random_wmss(signatures=4), random_ldmss(signatures=4)
random_mss(type, signatures) ==
    With([x \in 1 .. signatures |->
             IF type = "WOTS" THEN WOTS(signatures, x - 1)
                              ELSE LDOTS(signatures, x - 1)],
         LAMBDA entries :
           With(Merkle([i \in 1 .. Len(entries) |-> entries[i].pubhash]), LAMBDA a :
             [data |-> AttachTree(entries, a), merkle |-> a]))

\* list[i] of Python: the position (from 1) that index i names, 0 for IndexError
PyIndex(len, i) ==
    IF i >= 0 THEN (IF i < len THEN i + 1 ELSE 0)
    ELSE (IF -i <= len THEN len + i + 1 ELSE 0)

\* line 349 / 301: if ots_key > len(data)-1
KeyTooHigh(d, ots_key) == ots_key > Len(d) - 1

MssRet(ret, value, entry) == [ret |-> ret, value |-> value, entry |-> entry]

\* sign_mss(data, message, ots_key=0)
sign_mss(d, message, ots_key) ==
    IF d = <<>> THEN MssRet("False", <<>>, 0)
    ELSE IF message = <<>> THEN MssRet("False", <<>>, 0)
    ELSE IF KeyTooHigh(d, ots_key) THEN MssRet("Exception", <<>>, 0)
    ELSE With(PyIndex(Len(d), ots_key), LAMBDA e :
        IF e = 0 THEN MssRet("IndexError", <<>>, 0)              \* data[ots_key]
        ELSE With(IF d[1].type = "WOTS" THEN sign_wkey(d[e].priv, message)
                                        ELSE sign_lkey(d[e].priv, message),
                  LAMBDA r : IF r.status = "ok"
                             THEN MssRet("signature", r.value, e)
                             ELSE MssRet(r.status, <<>>, 0)))

\* verify_mss(sig, data, message, ots_key=0)
verify_mss(sig, d, message, ots_key) ==
    IF sig = <<>> THEN "False"
    ELSE IF message = <<>> THEN "False"
    ELSE IF KeyTooHigh(d, ots_key) THEN "Exception"
    ELSE IF d = <<>> THEN "IndexError"                           \* data[0]
    ELSE With(PyIndex(Len(d), ots_key), LAMBDA e :
        IF e = 0 THEN "IndexError"                               \* data[ots_key]
        ELSE IF d[1].type = "WOTS" THEN verify_wkey(sig, message, d[e].pub)
        ELSE verify_lkey(sig, message, d[e].pub))

\* x in list
\* (variant for comparison: every hash is taken to be in the list)
In_any(x, list) == TRUE
In(x, list) == \E q \in 1 .. Len(list) : list[q] = x

\* lines 327-338: for x in range(len(merkle_path))
RECURSIVE PathLoop(_, _, _)
PathLoop(merkle_root, merkle_path, x) ==
    IF x >= Len(merkle_path) THEN "False"
    ELSE IF Len(merkle_path[x + 1]) = 1
    THEN (IF join(merkle_path[x + 1]) = merkle_root THEN "True" ELSE "False")
    ELSE IF Len(merkle_path[x + 1]) < 2 THEN "IndexError"        \* merkle_path[x][0]
    ELSE IF x + 2 > Len(merkle_path) THEN "IndexError"           \* merkle_path[x+1]
    ELSE IF ~In(sha256(merkle_path[x + 1][1] \o merkle_path[x + 1][2]),
                merkle_path[x + 2])
    THEN "False"
    ELSE PathLoop(merkle_root, merkle_path, x + 1)

\* verify_root(pub, merkle_root, merkle_path)
verify_root(pub, merkle_root, merkle_path) ==
    IF pub = <<>> THEN "False"
    ELSE IF merkle_root = <<>> THEN "False"
    ELSE IF merkle_path = <<>> THEN "False"
    ELSE With(sha256(join(IF Len(pub) = 256 THEN join(pub) ELSE pub)),
              LAMBDA pubhash :
                IF ~In(pubhash, merkle_path[1]) THEN "False"
                ELSE PathLoop(merkle_root, merkle_path, 0))

----------------------------------------------------------------------------
(***************************************************************************)
(* The components a behaviour does not use stay as they are here.          *)
(***************************************************************************)
NoWpCall == [op |-> "none", w |-> 0, s |-> 0, checksum |-> 0,
             x |-> <<>>, r |-> <<>>, k |-> <<>>,
             mid |-> Raise("none"), ret |-> Raise("none"), full |-> Raise("none")]

WpIdle == wp_call = NoWpCall

NoEsCall == [op |-> "none", x |-> 0, time |-> 0,
             member |-> FALSE, len |-> 0, keys |-> {}]

EsIdle ==
    /\ expiration_time = 0 /\ es_data = {} /\ es_time = 0 /\ es_call = NoEsCall
    /\ es_added = <<>>

----------------------------------------------------------------------------
(***************************************************************************)
(* One key pair of one scheme: generated, used to sign one message, the     *)
(* signature then verified against a message.                              *)
(***************************************************************************)
MaxPrefix == 2          \* longest digest prefix that differs from the fill digit

FillDigits == {0, 15}

PrefixDigits == {0, 15}

RECURSIVE SeqsUpTo(_, _)
SeqsUpTo(S, n) ==
    IF n = 0 THEN {<<>>}
    ELSE SeqsUpTo(S, n - 1) \cup
         {Append(q, d) : q \in {p \in SeqsUpTo(S, n - 1) : Len(p) = n - 1}, d \in S}

\* the empty message, and messages named after their digest
Messages ==
    {<<>>} \cup {<<f>> \o p : f \in FillDigits, p \in SeqsUpTo(PrefixDigits, MaxPrefix)}

Schemes == {"W", "WP", "L"}     \* Winternitz, Winternitz+, Lamport

KeySeeds == {0, 1000}           \* where the numbering of the drawn keys starts

OtsKeygenOf(scheme, seed) ==
    IF scheme = "W" THEN random_wkey(WDefault, seed)
    ELSE IF scheme = "WP" THEN random_wpkey(WpDefault, seed)
    ELSE random_lkey(LDefault, seed)

OtsSignOf(key, m) ==
    IF key.scheme = "W" THEN sign_wkey(key.priv, m)
    ELSE IF key.scheme = "WP" THEN sign_wpkey(key.priv, m, key.pub, key.w)
    ELSE sign_lkey(key.priv, m)

OtsVerifyOf(key, sig, m) ==
    IF key.scheme = "W" THEN verify_wkey(sig, m, key.pub)
    ELSE IF key.scheme = "WP" THEN verify_wpkey(sig, m, key.pub, key.w)
    ELSE verify_lkey(sig, m, key.pub)

NoKey == [scheme |-> "none", w |-> 0, priv |-> <<>>, pub |-> <<>>]
NoSig == [message |-> <<>>, status |-> "none", value |-> <<>>]
NoVer == [message |-> <<>>, ret |-> "none"]

OtsIdle == ots_pc = "new" /\ ots_kp = NoKey /\ ots_sig = NoSig /\ ots_ver = NoVer

OtsKeygen ==
    /\ ots_pc = "new"
    /\ \E scheme \in Schemes, seed \in KeySeeds :
         \E kp \in {OtsKeygenOf(scheme, seed)} :
            ots_kp' = [scheme |-> scheme,
                        w |-> IF scheme = "W" THEN WDefault
                              ELSE IF scheme = "WP" THEN WpDefault ELSE 0,
                        priv |-> kp.priv, pub |-> kp.pub]
    /\ ots_pc' = "keyed"
    /\ UNCHANGED <<ots_sig, ots_ver, drbg_vars, mss_vars, wp_vars, es_vars>>

OtsSign ==
    /\ ots_pc = "keyed"
    /\ \E m \in Messages :
         \E r \in {OtsSignOf(ots_kp, m)} :
            ots_sig' = [message |-> m, status |-> r.status, value |-> r.value]
    /\ ots_pc' = "signed"
    /\ UNCHANGED <<ots_kp, ots_ver, drbg_vars, mss_vars, wp_vars, es_vars>>

OtsVerify ==
    /\ ots_pc = "signed"
    /\ ots_sig.status = "ok"
    /\ \E m \in Messages :
         ots_ver' = [message |-> m, ret |-> OtsVerifyOf(ots_kp, ots_sig.value, m)]
    /\ ots_pc' = "verified"
    /\ UNCHANGED <<ots_kp, ots_sig, drbg_vars, mss_vars, wp_vars, es_vars>>

OtsNext == OtsKeygen \/ OtsSign \/ OtsVerify

----------------------------------------------------------------------------
(***************************************************************************)
(* One MSS key set: built by random_wmss or random_ldmss, then used by     *)
(* sign_mss, verify_mss and verify_root.  A behaviour hands out at most     *)
(* MaxSigns signatures and ends with the first call that does not return a *)
(* signature (the verifications change nothing); verify_root, which reads  *)
(* nothing but its arguments, is called on the key set as built.           *)
(***************************************************************************)
MaxSignatures == 2      \* most entries (leaves) of a key set that signs

MaxSigns == 2           \* signatures handed out in one behaviour

MaxTreeLeaves == 9      \* most entries (leaves) of a key set whose tree is checked

MssTypes == {"WOTS", "LDOTS"}

MssMessages == {<<>>} \cup {<<f>> : f \in FillDigits}

\* ots_key offered to sign_mss and verify_mss: every index of data, the one
\* below and the one above
OtsKeyArgs == -1 .. Len(data)

NoMssCall == [op |-> "none", message |-> <<>>, ots_key |-> 0, pub |-> 0,
              root |-> "none", path |-> 0, cut |-> FALSE, sig |-> "none",
              ret |-> "none", entry |-> 0, swap |-> 0]

MssIdle ==
    /\ data = <<>> /\ merkle = Merkle(<<>>) /\ mss_sig = <<>>
    /\ mss_call = NoMssCall /\ mss_signed = <<>> /\ mss_signs = 0

\* the state after random_wmss(signatures) or random_ldmss(signatures)
MssBuilt(type, signatures) ==
    \E m \in {random_mss(type, signatures)} :
        /\ data = m.data
        /\ merkle = m.merkle
        /\ mss_sig = <<>>
        /\ mss_call = [NoMssCall EXCEPT !.op = "random_mss"]
        /\ mss_signed = [y \in 1 .. signatures |-> {}]
        /\ mss_signs = 0

MssInit == \E type \in MssTypes, signatures \in 0 .. MaxSignatures :
              MssBuilt(type, signatures)

\* larger trees, over Winternitz public keys
TreeInit == \E signatures \in 0 .. MaxTreeLeaves : MssBuilt("WOTS", signatures)

MssReady == mss_signs < MaxSigns /\ mss_call.ret \in {"none", "signature"}

SignMss ==
    /\ MssReady
    /\ \E message \in MssMessages, ots_key \in OtsKeyArgs :
         \E r \in {sign_mss(data, message, ots_key)} :
            /\ mss_call' = [NoMssCall EXCEPT !.op = "sign_mss", !.message = message,
                                             !.ots_key = ots_key, !.ret = r.ret,
                                             !.entry = r.entry]
            /\ mss_sig' = IF r.ret = "signature" THEN r.value ELSE mss_sig
            /\ mss_signed' = IF r.ret = "signature"
                             THEN [mss_signed EXCEPT ![r.entry] = @ \cup {message}]
                             ELSE mss_signed
            /\ mss_signs' = IF r.ret = "signature" THEN mss_signs + 1 ELSE mss_signs
    /\ UNCHANGED <<data, merkle, drbg_vars, ots_vars, wp_vars, es_vars>>

\* the signatures offered to verify_mss: the one sign_mss returned last, as it
\* is, without its last element, with one element more, and the empty list
SigArgs == {"as signed", "shorter", "longer", "empty"}

SigOf(kind) ==
    IF kind = "as signed" THEN mss_sig
    ELSE IF kind = "shorter" THEN SubSeq(mss_sig, 1, Len(mss_sig) - 1)
    ELSE IF kind = "longer" /\ mss_sig # <<>> THEN Append(mss_sig, mss_sig[1])
    ELSE <<>>

VerifyMss ==
    /\ MssReady
    /\ \E kind \in SigArgs, message \in MssMessages, ots_key \in OtsKeyArgs :
         mss_call' = [NoMssCall EXCEPT !.op = "verify_mss", !.message = message,
                                       !.ots_key = ots_key, !.sig = kind,
                                       !.ret = verify_mss(SigOf(kind), data,
                                                          message, ots_key)]
    /\ UNCHANGED <<data, merkle, mss_sig, mss_signed, mss_signs, drbg_vars, ots_vars, wp_vars, es_vars>>

\* the arguments offered to verify_root: the public key of an entry (0: an
\* empty one), the entries' root, another digest or an empty root, and the
\* path of an entry (0: an empty one), whole or cut before its last element
RootArgs == {"root", "other", "empty"}

PubOf(i) == IF i = 0 THEN <<>> ELSE data[i].pub

RootOf(kind) ==
    IF kind = "empty" \/ data = <<>> THEN <<>>
    ELSE IF kind = "root" THEN data[1].merkle_root
    ELSE sha256(data[1].merkle_root)

PathOf(j, cut) ==
    IF j = 0 THEN <<>>
    ELSE IF cut THEN SubSeq(data[j].merkle_path, 1, Len(data[j].merkle_path) - 1)
    ELSE data[j].merkle_path

VerifyRoot ==
    /\ mss_call.op = "random_mss"
    /\ \E i \in 0 .. Len(data), kind \in RootArgs, j \in 0 .. Len(data),
          cut \in BOOLEAN :
         mss_call' = [NoMssCall EXCEPT !.op = "verify_root", !.pub = i,
                                       !.root = kind, !.path = j, !.cut = cut,
                                       !.ret = verify_root(PubOf(i), RootOf(kind),
                                                           PathOf(j, cut))]
    /\ UNCHANGED <<data, merkle, mss_sig, mss_signed, mss_signs, drbg_vars, ots_vars, wp_vars, es_vars>>

\* a path with the two hashes of its p-th element in the other order
SwapAt(merkle_path, p) ==
    [u \in 1 .. Len(merkle_path) |->
        IF u = p /\ Len(merkle_path[u]) = 2
        THEN <<merkle_path[u][2], merkle_path[u][1]>>
        ELSE merkle_path[u]]

\* verify_root on an entry's public key, the entries' root and an entry's
\* path with one of its pairs reversed
VerifyRootSwapped ==
    /\ mss_call.op = "random_mss"
    /\ \E i \in 1 .. Len(data), j \in 1 .. Len(data) :
        \E p \in 1 .. (Len(data[j].merkle_path) - 1) :
         mss_call' = [NoMssCall EXCEPT !.op = "verify_root_swapped", !.pub = i,
                                       !.root = "root", !.path = j, !.swap = p,
                                       !.ret = verify_root(PubOf(i), RootOf("root"),
                                                  SwapAt(PathOf(j, FALSE), p))]
    /\ UNCHANGED <<data, merkle, mss_sig, mss_signed, mss_signs, drbg_vars, ots_vars, wp_vars, es_vars>>

----------------------------------------------------------------------------
(***************************************************************************)
(* HMAC_DRBG                                                               *)
(*                                                                         *)
(* A 32-byte HMAC output is one integer in 0..HmacRange-1; a byte string   *)
(* is the sequence of its 32-byte blocks (seed material: of its bytes).    *)
(***************************************************************************)
HmacRange == 5          \* size of the range of the modelled HMAC

BlockBytes == 32        \* bytes of one HMAC-SHA256 output

MaxBits == 7500         \* most bits one generate call hands out

ReseedCeiling == 80001  \* reseed_counter value at which generate stops

DefaultStrength == 256  \* security_strength default of __init__

\* hmac.new(key, data, hashlib.sha256).digest()
hmac(key, msg) ==
    (3 * key + 2 * SumSeq(msg) + Len(msg) + 1) % HmacRange

\* update(self, seed_material=None); seed_material is a record
\* [none |-> BOOLEAN, bytes |-> Seq], none standing for Python's None
update(self, seed_material) ==
    LET sm  == IF seed_material.none THEN <<>> ELSE seed_material.bytes
        K1  == hmac(self.K, <<self.V>> \o <<0>> \o sm)
        V1  == hmac(K1, <<self.V>>)
    IN  IF seed_material.none
        THEN [self EXCEPT !.K = K1, !.V = V1]
        ELSE LET K2 == hmac(K1, <<V1>> \o <<1>> \o sm)
                 V2 == hmac(K2, <<V1>>)
             IN  [self EXCEPT !.K = K2, !.V = V2]

NoSeed == [none |-> TRUE, bytes |-> <<>>]

\* instantiate(self, entropy, personalisation_string="")
instantiate(self, entropy, personalisation_string) ==
    LET seed_material == entropy \o personalisation_string
        s0 == [self EXCEPT !.K = 0, !.V = 1]     \* b"\x00"*32, b"\x01"*32
        s1 == update(s0, [none |-> FALSE, bytes |-> seed_material])
    IN  [s1 EXCEPT !.reseed_counter = 1]

\* __init__(self, entropy, personalisation_string="", security_strength=256)
HMAC_DRBG(entropy, personalisation_string, strength) ==
    instantiate([K |-> 0, V |-> 0, reseed_counter |-> 0,
                 security_strength |-> strength],
                entropy, personalisation_string)

\* line 88: if (num_bytes * 8) > 7500
\* (variant for comparison: num_bytes taken for a number of bits)
TooLarge_nomul(num_bytes) == num_bytes > MaxBits
TooLarge(num_bytes) == (num_bytes * 8) > MaxBits

\* line 91: if requested_security_strength > self.security_strength
StrengthExceeded(self, requested_security_strength) ==
    requested_security_strength > self.security_strength

\* line 98: if self.reseed_counter >= 80001
\* (variant for comparison: > in place of >=)
Exhausted_gt(self) == self.reseed_counter > ReseedCeiling
Exhausted(self) == self.reseed_counter >= ReseedCeiling

\* lines 98-99: return None (the instance is left as it is)
\* (variant for comparison: the counter starts again at 1)
ExhaustedReturn_reseed(self) ==
    [self |-> [self EXCEPT !.reseed_counter = 1], ret |-> "None",
     out |-> [blocks |-> <<>>, len |-> 0]]
ExhaustedReturn(self) ==
    [self |-> self, ret |-> "None", out |-> [blocks |-> <<>>, len |-> 0]]

\* lines 101-105: temp = b""; while len(temp) < num_bytes: V = hmac(K, V); temp += V
RECURSIVE FillTemp(_, _, _)
FillTemp(self, temp, num_bytes) ==
    IF BlockBytes * Len(temp) < num_bytes
    THEN LET v == hmac(self.K, <<self.V>>)
         IN  FillTemp([self EXCEPT !.V = v], Append(temp, v), num_bytes)
    ELSE [self |-> self, temp |-> temp]

\* lines 101-110 of generate, f being the outcome of the while loop
GenerateOutput(f, num_bytes) ==
    With(update(f.self, NoSeed), LAMBDA s1 :
        [self |-> [s1 EXCEPT !.reseed_counter = @ + 1],
         ret  |-> "bytes",
         \* temp[:num_bytes]
         out  |-> [blocks |-> f.temp,
                   len |-> Min(num_bytes, BlockBytes * Len(f.temp))]])

\* generate(self, num_bytes, requested_security_strength=256)
generate(self, num_bytes, requested_security_strength) ==
    IF TooLarge(num_bytes)
    THEN [self |-> self, ret |-> "RuntimeError:TooLarge",
          out |-> [blocks |-> <<>>, len |-> 0]]
    ELSE IF StrengthExceeded(self, requested_security_strength)
    THEN [self |-> self, ret |-> "RuntimeError:Strength",
          out |-> [blocks |-> <<>>, len |-> 0]]
    ELSE IF Exhausted(self)
    THEN ExhaustedReturn(self)
    ELSE With(FillTemp(self, <<>>, num_bytes),
              LAMBDA f : GenerateOutput(f, num_bytes))

\* reseed(self): `entropy` is not a name in scope, so evaluating the argument
\* of self.update(entropy) raises NameError before anything is assigned
reseed(self) == [self |-> self, ret |-> "NameError"]

\* ---- the instance as a state machine
Self == [K |-> K, V |-> V, reseed_counter |-> reseed_counter,
         security_strength |-> security_strength]

MaxCalls == 4           \* calls made on the instance in one behaviour

AgeWindow == 2          \* ages explored next to 0 and next to the ceiling

Entropies == {<<1, 2, 3>>, <<4, 5>>}     \* entropy strings offered to __init__
Strengths == {128, DefaultStrength}      \* security_strength of the instance
NumBytesArgs == {BlockBytes, 937, 938}   \* num_bytes offered to generate
StrengthArgs == {DefaultStrength, 257}   \* requested_security_strength offered

\* The number of successful generate calls an instance has already served when
\* the behaviour starts: none, a few, or nearly all it will ever serve.  GEN
\* and GEN_range (hmac_drbg.py:25-27, 35-38) make such runs of calls.
Ages == (0 .. AgeWindow) \cup ((ReseedCeiling - 1 - AgeWindow) .. (ReseedCeiling - 1))

NoCall == [op |-> "none", num_bytes |-> 0, strength |-> 0,
           K0 |-> 0, V0 |-> 0, rc0 |-> 0,
           ret |-> "None", out |-> [blocks |-> <<>>, len |-> 0]]

\* A freshly constructed instance (age 0), or one that has served `age`
\* generate calls: its counter is 1 + age and K, V are whatever HMAC outputs
\* the calls left behind.
DrbgInit ==
    \E e \in Entropies, st \in Strengths, age \in Ages :
      \E s \in {HMAC_DRBG(e, <<>>, st)} :
        /\ IF age = 0
           THEN K = s.K /\ V = s.V
           ELSE K \in 0 .. (HmacRange - 1) /\ V \in 0 .. (HmacRange - 1)
        /\ reseed_counter = s.reseed_counter + age
        /\ security_strength = s.security_strength
        /\ drbg_call = IF age = 0
                       THEN [NoCall EXCEPT !.op = "instantiate", !.strength = st,
                                           !.V0 = 1]
                       ELSE NoCall
        /\ drbg_exhausted = FALSE
        /\ drbg_calls = 0
        /\ OtsIdle
        /\ MssIdle
        /\ WpIdle
        /\ EsIdle

Generate(num_bytes, strength) ==
    /\ drbg_calls < MaxCalls
    /\ \E r \in {generate(Self, num_bytes, strength)} :
        /\ K' = r.self.K
        /\ V' = r.self.V
        /\ reseed_counter' = r.self.reseed_counter
        /\ security_strength' = r.self.security_strength
        /\ drbg_call' = [op |-> "generate", num_bytes |-> num_bytes,
                         strength |-> strength,
                         K0 |-> K, V0 |-> V, rc0 |-> reseed_counter,
                         ret |-> r.ret, out |-> r.out]
        /\ drbg_exhausted' = (drbg_exhausted \/ r.ret = "None")
    /\ drbg_calls' = drbg_calls + 1
    /\ UNCHANGED <<ots_vars, mss_vars, wp_vars, es_vars>>

Reseed ==
    /\ drbg_calls < MaxCalls
    /\ \E r \in {reseed(Self)} :
        /\ K' = r.self.K
        /\ V' = r.self.V
        /\ reseed_counter' = r.self.reseed_counter
        /\ security_strength' = r.self.security_strength
        /\ drbg_call' = [NoCall EXCEPT !.op = "reseed", !.K0 = K, !.V0 = V,
                                       !.rc0 = reseed_counter, !.ret = r.ret]
    /\ drbg_calls' = drbg_calls + 1
    /\ UNCHANGED <<drbg_exhausted, ots_vars, mss_vars, wp_vars, es_vars>>

DrbgGenerate == \E n \in NumBytesArgs, s \in StrengthArgs : Generate(n, s)

DrbgNext == DrbgGenerate \/ Reseed

SpecDRBG == DrbgInit /\ [][DrbgNext]_vars

----------------------------------------------------------------------------
(***************************************************************************)
(* Single calls of the building blocks of Winternitz+: the two chain       *)
(* functions on one start value, and the digits of one digest.  The        *)
(* functions keep no state, so a behaviour is one call.                    *)
(***************************************************************************)
MaxChainStart == 2      \* start values and randomizer lists offered to the chains

WpBases == {4, WpDefault, 32}       \* w offered to the chains

\* a list r of w-1 randomisation elements, as random_wpkey draws it (line 73)
Randomizers(w, v) == [y \in 1 .. (w - 1) |-> random_key(100 * v + y)]

\* chain_fn(x, r, s, k), chain_fn2 on its result as verify_wpkey calls it
\* (line 154), and chain_fn(x, r, w-1, k) as random_wpkey calls it (line 78)
ChainMidpoint ==
    /\ wp_call.op = "none"
    /\ \E w \in WpBases, v \in 1 .. MaxChainStart, u \in 1 .. MaxChainStart :
        \E s \in 0 .. (w - 1) :
         \E x \in {random_key(1000 + u)}, r \in {Randomizers(w, v)}, k \in {random_key(0)} :
          \E mid \in {chain_fn(x, r, s, k)} :
            wp_call' = [NoWpCall EXCEPT !.op = "chain", !.w = w, !.s = s,
                                        !.x = x, !.r = r, !.k = k, !.mid = mid,
                                        !.ret = IF mid.status = "ok"
                                                THEN chain_fn2(mid.value, r, s, k)
                                                ELSE mid,
                                        !.full = chain_fn(x, r, w - 1, k)]
    /\ UNCHANGED <<drbg_vars, ots_vars, mss_vars, es_vars>>

\* every value the checksum of 64 digits takes for w = 16
ChecksumValues == 0 .. (64 * (WpDefault - 1))

\* a digest of checksum c: digits 0 (15 each), one digit for the rest, digits 15
DigestOfChecksum(c) ==
    [i \in 1 .. DigestLen |->
        IF i <= c \div 15 THEN 0
        ELSE IF i = (c \div 15) + 1 THEN 15 - (c % 15)
        ELSE 15]

\* lines 97-112 / 134-149 on one digest
WpEncode ==
    /\ wp_call.op = "none"
    /\ \E c \in ChecksumValues :
         wp_call' = [NoWpCall EXCEPT !.op = "digits", !.w = WpDefault, !.checksum = c,
                                     !.x = DigestOfChecksum(c),
                                     !.ret = DigestDigits(DigestOfChecksum(c), WpDefault)]
    /\ UNCHANGED <<drbg_vars, ots_vars, mss_vars, es_vars>>

----------------------------------------------------------------------------
DrbgIdle ==
    /\ K = 0 /\ V = 0 /\ reseed_counter = 0 /\ security_strength = 0
    /\ drbg_call = NoCall /\ drbg_exhausted = FALSE /\ drbg_calls = 0

OtsInit == OtsIdle /\ DrbgIdle /\ MssIdle /\ WpIdle /\ EsIdle

SpecOTS == OtsInit /\ [][OtsNext]_vars

Init == MssInit /\ OtsIdle /\ DrbgIdle /\ WpIdle /\ EsIdle

Next == SignMss \/ VerifyMss \/ VerifyRoot

Spec == Init /\ [][Next]_vars

\* the root check on the entries of larger trees
InitTree == TreeInit /\ OtsIdle /\ DrbgIdle /\ WpIdle /\ EsIdle

NextTree == VerifyRoot \/ VerifyRootSwapped

SpecTree == InitTree /\ [][NextTree]_vars

\* single calls of the Winternitz+ building blocks
WpInit == WpIdle /\ OtsIdle /\ DrbgIdle /\ MssIdle /\ EsIdle

WpNext == ChainMidpoint \/ WpEncode

SpecWp == WpInit /\ [][WpNext]_vars

----------------------------------------------------------------------------
(***************************************************************************)
(* ExpiringSet (expiring_set.py), built without a filename, so that _load   *)
(* and _store do nothing.  _data is the set of its <<key, value>> items.    *)
(***************************************************************************)
MaxKeys == 2
MaxTime == 4
MaxExpiration == 2

EsKeys == 1 .. MaxKeys

\* the keys of _data
DataKeys(d) == {p[1] : p \in d}

\* _refresh, line 38: the items whose value is below the current time are kept
Refresh(d, current_time) == {p \in d : p[2] < current_time}

\* __init__(expiration_time), at time 0
EsInit ==
    /\ expiration_time \in 1 .. MaxExpiration
    /\ es_data = {}
    /\ es_time = 0
    /\ es_call = NoEsCall
    /\ es_added = [x \in EsKeys |-> -1]
    /\ WpIdle /\ OtsIdle /\ DrbgIdle /\ MssIdle

\* the clock behind ntp.getTime() moves on
Tick ==
    /\ es_time < MaxTime
    /\ es_time' = es_time + 1
    /\ UNCHANGED <<expiration_time, es_data, es_call, es_added,
                   drbg_vars, ots_vars, mss_vars, wp_vars>>

\* add(x)
Add ==
    \E x \in EsKeys :
        /\ es_data' = {p \in es_data : p[1] # x}
                         \cup {<<x, es_time + expiration_time>>}
        /\ es_added' = [es_added EXCEPT ![x] = es_time]
        /\ es_call' = [NoEsCall EXCEPT !.op = "add", !.x = x, !.time = es_time]
        /\ UNCHANGED <<expiration_time, es_time,
                       drbg_vars, ots_vars, mss_vars, wp_vars>>

\* x in set
Contains ==
    \E x \in EsKeys :
        /\ es_data' = Refresh(es_data, es_time)
        /\ es_call' = [NoEsCall EXCEPT !.op = "contains", !.x = x,
                                       !.time = es_time,
                                       !.member = (x \in DataKeys(es_data'))]
        /\ UNCHANGED <<expiration_time, es_time, es_added,
                       drbg_vars, ots_vars, mss_vars, wp_vars>>

\* len(set)
Length ==
    /\ es_data' = Refresh(es_data, es_time)
    /\ es_call' = [NoEsCall EXCEPT !.op = "len", !.time = es_time,
                                   !.len = Cardinality(es_data')]
    /\ UNCHANGED <<expiration_time, es_time, es_added,
                   drbg_vars, ots_vars, mss_vars, wp_vars>>

\* iter(set), read to its end
Iterate ==
    /\ es_data' = Refresh(es_data, es_time)
    /\ es_call' = [NoEsCall EXCEPT !.op = "iter", !.time = es_time,
                                   !.keys = DataKeys(es_data')]
    /\ UNCHANGED <<expiration_time, es_time, es_added,
                   drbg_vars, ots_vars, mss_vars, wp_vars>>

EsNext == Tick \/ Add \/ Contains \/ Length \/ Iterate

SpecSet == EsInit /\ [][EsNext]_vars

\* the keys whose last add is less than expiration_time before time q
Live(q) == {x \in EsKeys : es_added[x] >= 0 /\ q < es_added[x] + expiration_time}

\* the keys whose last add is more than expiration_time before time q
Expired(q) == {x \in EsKeys : es_added[x] >= 0 /\ q > es_added[x] + expiration_time}

\* C16: a key added at time t is reported as a member (by in, len and
\* iteration) by every query before t + expiration_time, and by none after it.
C16_MembershipLifetime ==
    /\ es_call.op = "contains" =>
          /\ es_call.x \in Live(es_call.time) => es_call.member
          /\ es_call.x \in Expired(es_call.time) => ~es_call.member
    /\ es_call.op = "iter" =>
          /\ Live(es_call.time) \subseteq es_call.keys
          /\ Expired(es_call.time) \cap es_call.keys = {}
    /\ es_call.op = "len" =>
          /\ es_call.len >= Cardinality(Live(es_call.time))
          /\ es_call.len <= MaxKeys - Cardinality(Expired(es_call.time))

----------------------------------------------------------------------------
(***************************************************************************)
(* Properties of the one-time signature schemes (SpecOTS)                  *)
(***************************************************************************)

\* C1: for each scheme, every generated key pair and every message m, sign
\* returns a signature over m, and verifying that signature against m and the
\* matching public key returns True.
C1_RoundTrip ==
    /\ (ots_pc \in {"signed", "verified"} => ots_sig.status = "ok")
    /\ (ots_pc = "verified" /\ ots_ver.message = ots_sig.message
            => ots_ver.ret = "True")

\* C13: for each scheme, every key pair and all messages m, m' whose digests
\* differ, verifying the signature made over m against m' and the matching
\* public key returns False.
C13_MessageBinding ==
    (/\ ots_pc = "verified"
     /\ sha256(ots_ver.message) # sha256(ots_sig.message))
        => ots_ver.ret = "False"

\* the bytes of the digest of a message
DigestBytes(m) == unhexlify(sha256(m))

\* a plain Winternitz key pair has signed
WSigned ==
    /\ ots_kp.scheme = "W" /\ ots_pc \in {"signed", "verified"}
    /\ ots_sig.status = "ok"

\* C15 as stated: signature_i is private_i hashed 255 - byte_i times.
C15_SignCount255 ==
    WSigned =>
        \A y \in 1 .. Len(ots_kp.priv) :
            ots_sig.value[y] =
                HashTimes(ots_kp.priv[y], 255 - DigestBytes(ots_sig.message)[y])

\* C15 amended: signature_i is private_i hashed 256 - byte_i times; verify_wkey
\* hashes signature_i byte_i further times (of the digest it is given) and
\* returns True exactly when every result is public_i, which is private_i
\* hashed 2^8 - 1 times and once more.
C15_SignCount256 ==
    WSigned =>
        /\ Len(ots_sig.value) = Len(ots_kp.priv)
        /\ \A y \in 1 .. Len(ots_kp.priv) :
            /\ ots_sig.value[y] =
                   HashTimes(ots_kp.priv[y], 256 - DigestBytes(ots_sig.message)[y])
            /\ ots_kp.pub[y] = sha256(HashTimes(ots_kp.priv[y], 255))
        /\ ots_pc = "verified" =>
              (ots_ver.ret = "True" <=>
                 \A y \in 1 .. Len(ots_kp.priv) :
                    HashTimes(ots_sig.value[y], DigestBytes(ots_ver.message)[y])
                       = ots_kp.pub[y])
              /\ ots_ver.ret \in {"True", "False"}

\* a digest of bytes 255 has been signed with one hash of each private key,
\* and the signature verified against the same message
C15_Witness ==
    /\ WSigned /\ ots_pc = "verified"
    /\ DigestBytes(ots_sig.message)[1] = 255
    /\ ots_sig.value[1] = sha256(ots_kp.priv[1])
    /\ ots_ver.message = ots_sig.message /\ ots_ver.ret = "True"

\* C11: for the base w passed to sign_wpkey / verify_wpkey, every start value
\* x, list r of w-1 randomisation elements, key k and 0 <= s <= w-1, chain_fn2
\* on chain_fn(x, r, s, k) returns chain_fn(x, r, w-1, k); chain_fn with 0
\* steps returns x.
C11_ChainMidpoint ==
    wp_call.op = "chain" =>
        /\ wp_call.mid.status = "ok" /\ wp_call.full.status = "ok"
        /\ wp_call.ret.status = "ok"
        /\ wp_call.ret.value = wp_call.full.value
        /\ wp_call.s = 0 => wp_call.mid.value = wp_call.x

\* C12: for every checksum value in 0..960 (w = 16), the digits of a digest
\* with that checksum are the 64 digits of the digest and exactly 3 digits
\* that spell the checksum in base 16, padded with zeros on the left: 67 in all.
C12_ChecksumDigits ==
    wp_call.op = "digits" =>
        /\ wp_call.ret.status = "ok"
        /\ Len(wp_call.ret.value) = 67
        /\ SubSeq(wp_call.ret.value, 1, 64) = wp_call.x
        /\ 256 * wp_call.ret.value[65] + 16 * wp_call.ret.value[66]
              + wp_call.ret.value[67] = wp_call.checksum

----------------------------------------------------------------------------
(***************************************************************************)
(* Properties of the key set and its tree (Spec, SpecTree)                 *)
(***************************************************************************)

\* C2: over any sequence of sign_mss calls on one key set, no entry of data
\* signs two messages.
C2_OneTimeUse ==
    \A y \in DOMAIN mss_signed : Cardinality(mss_signed[y]) <= 1

\* a verify_root call on entry i's own public key, the tree's root and the
\* whole path of entry i
OwnPathCall(i) ==
    /\ mss_call.op = "verify_root"
    /\ mss_call.pub = i /\ mss_call.path = i
    /\ mss_call.root = "root" /\ ~mss_call.cut

\* C3: for every tree over 1..MaxTreeLeaves distinct leaf hashes and every
\* leaf i, verify_root on the public key whose hash is leaf i, the tree's root
\* and auth_lists[i] returns True.
C3_AuthPathComplete ==
    \A i \in 1 .. Len(data) :
        OwnPathCall(i) =>
            /\ data[i].merkle_path = merkle.auth_lists[i]
            /\ data[i].merkle_root = join(merkle.root)
            /\ sha256(join(data[i].pub)) = merkle.base[i]
            /\ mss_call.ret = "True"

\* the root check succeeds for the leaf carried forward on two layers
C3_Witness ==
    /\ Len(data) = 5 /\ OwnPathCall(5) /\ mss_call.ret = "True"

\* The layers on which the node above leaf i (from 0) of n leaves is the last
\* node of a layer of odd length, and so is carried forward unpaired
\* (merkle.py:545-546).
RECURSIVE Carries(_, _)
Carries(i, n) ==
    IF n <= 1 THEN 0
    ELSE (IF n % 2 = 1 /\ i = n - 1 THEN 1 ELSE 0) + Carries(i \div 2, (n + 1) \div 2)

\* C4 as stated: the path of every leaf has as many elements as the tree has
\* layers (height), the leaves carried forward unpaired included.
C4_PathLengthIsHeight ==
    \A y \in 1 .. merkle.num_leaves :
        y <= Len(merkle.auth_lists) => Len(merkle.auth_lists[y]) = merkle.height

\* C4 amended: the path of leaf y has one element for every layer of the tree
\* except those on which the node above the leaf is carried forward unpaired;
\* it has height elements exactly when the leaf is never carried.
C4_PathLength ==
    \A y \in 1 .. merkle.num_leaves :
        /\ y <= Len(merkle.auth_lists)
        /\ Len(merkle.auth_lists[y]) =
               merkle.height - Carries(y - 1, merkle.num_leaves)
        /\ Len(data[y].merkle_path) = Len(merkle.auth_lists[y])

\* five leaves, four layers: the last leaf is carried twice, its path has two
\* elements and has been offered to verify_root
C4_Witness ==
    /\ merkle.num_leaves = 5 /\ merkle.height = 4
    /\ Len(merkle.auth_lists[5]) = 2
    /\ Len(merkle.auth_lists[1]) = 4
    /\ OwnPathCall(5)

\* the pub, merkle_root and merkle_path the last verify_root call was given
CallPub == PubOf(mss_call.pub)

CallRoot == RootOf(mss_call.root)

CallPath ==
    IF mss_call.op = "verify_root_swapped"
    THEN SwapAt(PathOf(mss_call.path, FALSE), mss_call.swap)
    ELSE PathOf(mss_call.path, mss_call.cut)

\* C14: verify_root returns True only if the hash of the concatenated public
\* key is in the first path element, the first path element of one hash is
\* the claimed root, and for every path element before it the hash of its
\* pair is in the next element; a public key whose hash is not in the first
\* element of the path, and a root other than the path's last element, get False.
C14_RootCheckSound ==
    /\ (mss_call.op \in {"verify_root", "verify_root_swapped"} /\ mss_call.ret = "True") =>
          /\ CallPub # <<>> /\ CallRoot # <<>> /\ CallPath # <<>>
          /\ \E q \in DOMAIN CallPath[1] :
                CallPath[1][q] = sha256(join(IF Len(CallPub) = 256 THEN join(CallPub)
                                                                  ELSE CallPub))
          /\ \E t \in 1 .. Len(CallPath) :
                /\ Len(CallPath[t]) = 1
                /\ CallPath[t][1] = CallRoot
                /\ \A u \in 1 .. (t - 1) :
                      /\ Len(CallPath[u]) = 2
                      /\ \E q \in DOMAIN CallPath[u + 1] :
                            CallPath[u + 1][q] = sha256(CallPath[u][1] \o CallPath[u][2])
    /\ (/\ mss_call.op \in {"verify_root", "verify_root_swapped"}
        /\ mss_call.pub >= 1 /\ mss_call.path >= 1 /\ ~mss_call.cut
        /\ \/ \A q \in DOMAIN CallPath[1] : CallPath[1][q] # merkle.base[mss_call.pub]
           \/ mss_call.root = "other")
          => mss_call.ret = "False"

\* the root check has accepted the public key of the sibling of the path's leaf
C14_Witness ==
    /\ mss_call.op = "verify_root" /\ mss_call.ret = "True"
    /\ Len(data) = 4 /\ mss_call.pub = 4 /\ mss_call.path = 3

\* C5: a tree over n >= 1 leaf hashes has exactly n paths in auth_lists, and
\* entry y of the key set holds the y-th of them.
C5_OnePathPerLeaf ==
    merkle.base # <<>> =>
        /\ Len(merkle.auth_lists) = merkle.num_leaves
        /\ \A y \in 1 .. Len(data) : data[y].merkle_path = merkle.auth_lists[y]

\* C6: verify_mss (and with it verify_wkey and verify_lkey) and verify_root
\* return True or False for every input, and raise nothing.
C6_VerifyTotal ==
    mss_call.op \in {"verify_mss", "verify_root"} => mss_call.ret \in {"True", "False"}

\* C7: sign_mss and verify_mss called with an index outside 0..len(data)-1 or
\* with an empty message end in an error (no signature, no verdict), and
\* Merkle() on an empty base ends in an error.
C7_FailFast ==
    /\ (/\ mss_call.op \in {"sign_mss", "verify_mss"}
        /\ \/ mss_call.ots_key < 0
           \/ mss_call.ots_key > Len(data) - 1
           \/ mss_call.message = <<>>)
          => mss_call.ret \notin {"signature", "True", "False"}
    /\ merkle.base = <<>> => merkle.status # "ok"

----------------------------------------------------------------------------
(***************************************************************************)
(* Properties of HMAC_DRBG (SpecDRBG)                                      *)
(***************************************************************************)

\* the last call was generate with arguments within the limits
InLimitCall ==
    /\ drbg_call.op = "generate"
    /\ drbg_call.num_bytes * 8 <= 7500
    /\ drbg_call.strength <= security_strength

\* C8: once generate has returned None, every later generate call within the
\* limits returns None; a call that returns None leaves K, V and
\* reseed_counter as they were; reseed_counter never decreases.
C8_ExhaustionPermanent ==
    /\ [](drbg_call.op = "generate" /\ drbg_call.ret = "None"
            => /\ K = drbg_call.K0 /\ V = drbg_call.V0
               /\ reseed_counter = drbg_call.rc0)
    /\ [][drbg_exhausted /\ InLimitCall' => drbg_call'.ret = "None"]_vars
    /\ [][reseed_counter' >= reseed_counter]_vars

\* an exhausted instance has been asked again, within the limits
C8_Witness ==
    /\ drbg_exhausted /\ InLimitCall /\ drbg_call.ret = "None"
    /\ drbg_calls >= 2

\* C9 as stated: a generate call within the limits returns None exactly when
\* reseed_counter is greater than 80001; up to 80001 it returns num_bytes
\* bytes and adds one to reseed_counter.
C9_ExhaustedAbove80001 ==
    InLimitCall =>
        /\ drbg_call.ret = "None" <=> drbg_call.rc0 > 80001
        /\ drbg_call.rc0 <= 80001 =>
              /\ drbg_call.ret = "bytes"
              /\ drbg_call.out.len = drbg_call.num_bytes
              /\ reseed_counter = drbg_call.rc0 + 1

\* C9 amended: a generate call within the limits returns None exactly when
\* reseed_counter is at least 80001; up to 80000 it returns num_bytes bytes
\* and adds one to reseed_counter, which is 1 after __init__.
C9_ExhaustedFrom80001 ==
    /\ InLimitCall =>
        /\ drbg_call.ret = "None" <=> drbg_call.rc0 >= 80001
        /\ drbg_call.rc0 <= 80000 =>
              /\ drbg_call.ret = "bytes"
              /\ drbg_call.out.len = drbg_call.num_bytes
              /\ BlockBytes * Len(drbg_call.out.blocks) >= drbg_call.num_bytes
              /\ reseed_counter = drbg_call.rc0 + 1
    /\ drbg_call.op = "instantiate" => reseed_counter = 1

\* the call made with reseed_counter = 80001 returns None
C9_Witness ==
    InLimitCall /\ drbg_call.rc0 = 80001 /\ drbg_call.ret = "None"

\* C10: generate raises the request-too-large error exactly when
\* num_bytes * 8 > 7500; a request of acceptable size for more strength than
\* the instance has raises the strength error, so every request for more
\* strength fails; a failed call leaves K, V and reseed_counter as they were.
C10_RequestLimits ==
    drbg_call.op = "generate" =>
        /\ drbg_call.ret = "RuntimeError:TooLarge" <=> drbg_call.num_bytes * 8 > 7500
        /\ (drbg_call.num_bytes * 8 <= 7500 /\ drbg_call.strength > security_strength)
              <=> drbg_call.ret = "RuntimeError:Strength"
        /\ drbg_call.strength > security_strength
              => drbg_call.ret \in {"RuntimeError:TooLarge", "RuntimeError:Strength"}
        /\ drbg_call.ret \in {"RuntimeError:TooLarge", "RuntimeError:Strength"}
              => /\ K = drbg_call.K0 /\ V = drbg_call.V0
                 /\ reseed_counter = drbg_call.rc0

\* 938 bytes have been refused of an instance that had served 937 bytes
C10_Witness ==
    /\ drbg_call.op = "generate" /\ drbg_call.num_bytes = 938
    /\ drbg_call.ret = "RuntimeError:TooLarge"
    /\ drbg_calls >= 2 /\ reseed_counter >= 2

=============================================================================
